---------------------------- MODULE Spec2Model ----------------------------
(***************************************************************************)
(* KitchenV0 / KitchenTaskRelaxV1                                          *)
(* (d4rl/kitchen/adept_envs/franka/kitchen_multitask_v0.py).               *)
(*                                                                         *)
(* Floating point values are fixed-point integers with resolution 0.001    *)
(* (Unit = 1.0), so 0.05 is 50 and the quaternion [1,0,1,0] is             *)
(* <<1000,0,1000,0>>.  Python's 0-based indices i are the 1-based i+1.     *)
(* The physics engine (sim.step, sim.forward), the robot state provider    *)
(* (robot.get_obs, robot.reset) and the controller library are external:   *)
(* what they return is drawn from small sets.                              *)
(***************************************************************************)
EXTENDS Integers, Sequences, FiniteSets, TLC

VARIABLES
    model,        \* sim.model: nmocap, nu, actuator_*, jnt_qposadr, eq_*, body_mocapid
    eq_data,      \* sim.model.eq_data
    qpos,         \* sim.data.qpos
    qvel,         \* sim.data.qvel
    ctrl,         \* sim.data.ctrl (None, modelled <<>>, when the model has no actuator)
    mocap_pos,    \* sim.data.mocap_pos
    mocap_quat,   \* sim.data.mocap_quat
    body_xpos,    \* sim.data.body_xpos
    body_xquat,   \* sim.data.body_xquat
    time,         \* sim.data.time, in ticks of sim.step()
    goal,         \* self.goal
    obs_dict,     \* self.obs_dict
    obs_dim,      \* self.obs_dim
    initializing, \* self.initializing
    command,      \* the command vector last handed to the dispatchers
    ret,          \* the last call: its name, its argument, what it raised, what it returned
    ncalls,       \* number of completed calls that advance the model (bounds the run)
    ep_steps,     \* completed steps since construction or the last reset_model
    ep_base,      \* target positions right after the first resync of the episode
    ep_sum,       \* sum of the position deltas applied since then
    last_goal,    \* the goal last stored by the constructor or by set_goal
    paths,        \* evaluate_success: the batch of rollouts
    paths_b,      \* a second batch, to compare two results
    result,       \* evaluate_success(paths)
    result_b      \* evaluate_success(paths_b)

vars == <<model, eq_data, qpos, qvel, ctrl, mocap_pos, mocap_quat, body_xpos,
          body_xquat, time, goal, obs_dict, obs_dim, initializing, command, ret,
          ncalls,
          ep_steps, ep_base, ep_sum, last_goal, paths, paths_b, result, result_b>>

simVars == <<model, eq_data, qpos, qvel, ctrl, mocap_pos, mocap_quat, body_xpos,
             body_xquat, time>>
envVars == <<goal, obs_dict, obs_dim, initializing>>
epVars == <<ncalls, ep_steps, ep_base, ep_sum, last_goal>>
evalVars == <<paths, paths_b, result, result_b>>

----------------------------------------------------------------------------
(* Program constants *)

N_DOF_ROBOT == 9
N_DOF_OBJECT == 21
GoalDim == 30
EQ_WELD == 1
Unit == 10 * 10 * 10

NQ == N_DOF_ROBOT + N_DOF_OBJECT

(* Bounds of the model *)

MaxMocap == 1
MaxNu == 2
MaxCalls == 2
MaxPaths == 2

----------------------------------------------------------------------------
(* Vectors *)

Min(a, b) == IF a < b THEN a ELSE b
Abs(x) == IF x < 0 THEN -x ELSE x
Sign(x) == IF x < 0 THEN -1 ELSE IF x > 0 THEN 1 ELSE 0

Zeros(n) == [i \in 1..n |-> 0]
VecAdd(a, b) == [i \in DOMAIN a |-> a[i] + b[i]]

\* np.split(action, (k,)): the two parts action[:k] and action[k:]
SplitHead(action, k) == SubSeq(action, 1, Min(k, Len(action)))
SplitTail(action, k) == SubSeq(action, k + 1, Len(action))

----------------------------------------------------------------------------
(* ctrl_set_action *)

\* idx = sim.model.jnt_qposadr[sim.model.actuator_trnid[i, 0]]
DrivenAddr(m, i) == m.jnt_qposadr[m.actuator_trnid[i]]

\* (mutation) every actuator treated as direct-drive
NoOffsetCtrlValue(m, q, action, i) == action[i]

\* the value written to sim.data.ctrl[i]
CtrlValue(m, q, action, i) ==
    IF m.actuator_biastype[i] = 0
    THEN action[i]
    ELSE q[DrivenAddr(m, i)] + action[i]

\* for i in range(action.shape[0]): ... ; indexing actuator_biastype past the
\* last actuator raises IndexError, the entries written before stay written
RECURSIVE CtrlLoop(_, _, _, _, _)
CtrlLoop(m, q, c, action, i) ==
    IF i > Len(action) THEN [ctrl |-> c, exc |-> "none"]
    ELSE IF i > m.nu THEN [ctrl |-> c, exc |-> "IndexError"]
    ELSE CtrlLoop(m, q, [c EXCEPT ![i] = CtrlValue(m, q, action, i)], action, i + 1)

\* the part of the command ctrl_set_action dispatches
CtrlPart(m, action) ==
    IF m.nmocap > 0 THEN SplitTail(action, m.nmocap * 7) ELSE action

\* sim.data.ctrl is None exactly when the model has no actuator
ctrl_set_action(m, q, c, action) ==
    IF m.nu > 0
    THEN CtrlLoop(m, q, c, CtrlPart(m, action), 1)
    ELSE [ctrl |-> c, exc |-> "none"]

----------------------------------------------------------------------------
(* reset_mocap2body_xpos, mocap_set_action *)

\* one pass of the loop over the equality constraints; the assert stops it
RECURSIVE ResyncLoop(_, _, _, _, _, _)
ResyncLoop(m, bx, bq, mp, mq, k) ==
    IF k > Len(m.eq) THEN [mocap_pos |-> mp, mocap_quat |-> mq, exc |-> "none"]
    ELSE LET e == m.eq[k] IN
         IF e.eq_type # EQ_WELD THEN ResyncLoop(m, bx, bq, mp, mq, k + 1)
         ELSE LET first == m.body_mocapid[e.obj1id]
                  mocap_id == IF first # -1 THEN first ELSE m.body_mocapid[e.obj2id]
                  body_idx == IF first # -1 THEN e.obj2id ELSE e.obj1id
              IN IF mocap_id = -1
                 THEN [mocap_pos |-> mp, mocap_quat |-> mq, exc |-> "AssertionError"]
                 ELSE ResyncLoop(m, bx, bq,
                                 [mp EXCEPT ![mocap_id] = bx[body_idx]],
                                 [mq EXCEPT ![mocap_id] = bq[body_idx]], k + 1)

\* (mutation) the targets left where they are
NoResync(m, bx, bq, mp, mq) == [mocap_pos |-> mp, mocap_quat |-> mq, exc |-> "none"]

\* eq_type, eq_obj1id, eq_obj2id are None when the model has no equality constraint
reset_mocap2body_xpos(m, bx, bq, mp, mq) ==
    IF Len(m.eq) = 0
    THEN [mocap_pos |-> mp, mocap_quat |-> mq, exc |-> "none"]
    ELSE ResyncLoop(m, bx, bq, mp, mq, 1)

\* action.reshape(nmocap, 7)[:, :3] and [:, 3:]
PosDelta(action, j) == SubSeq(action, 7 * (j - 1) + 1, 7 * (j - 1) + 3)
QuatDelta(action, j) == SubSeq(action, 7 * (j - 1) + 4, 7 * (j - 1) + 7)

\* (mutation) the quaternion part of the command added to the target
MocapApplyQuat(m, r, action) ==
    [mocap_pos |-> [j \in 1..m.nmocap |-> VecAdd(r.mocap_pos[j], PosDelta(action, j))],
     mocap_quat |-> [j \in 1..m.nmocap |-> VecAdd(r.mocap_quat[j], QuatDelta(action, j))],
     exc |-> "none"]

MocapApply(m, r, action) ==
    [mocap_pos |-> [j \in 1..m.nmocap |-> VecAdd(r.mocap_pos[j], PosDelta(action, j))],
     mocap_quat |-> r.mocap_quat,
     exc |-> "none"]

mocap_set_action(m, bx, bq, mp, mq, action) ==
    IF m.nmocap > 0
    THEN LET part == SplitHead(action, m.nmocap * 7) IN
         IF Len(part) # m.nmocap * 7
         THEN [mocap_pos |-> mp, mocap_quat |-> mq, exc |-> "ValueError"]
         ELSE LET r == reset_mocap2body_xpos(m, bx, bq, mp, mq) IN
              IF r.exc # "none" THEN r ELSE MocapApply(m, r, part)
    ELSE [mocap_pos |-> mp, mocap_quat |-> mq, exc |-> "none"]

----------------------------------------------------------------------------
(* The models and the outcomes of the external engine *)

WorldQuat == <<Unit, 0, 0, 0>>

\* sim.data.qpos and qvel the engine can leave behind
QposOf(k) == [a \in 1..NQ |-> 10 * k + a]
QvelOf(k) == [a \in 1..NQ |-> k]

\* body poses the engine can leave behind
Place(k, b) == <<100 * k + b, 10 * b, -b>>
Orient(k, b) == IF (k + b) % 2 = 0 THEN WorldQuat ELSE <<0, Unit, 0, 0>>

Weld(a, b) == [eq_type |-> EQ_WELD, obj1id |-> a, obj2id |-> b]
Connect(a, b) == [eq_type |-> 0, obj1id |-> a, obj2id |-> b]

\* bodies 1..nm are the mocap bodies, nm+1 is the welded link, nm+2 another body
EqFamily(nm) ==
    IF nm = 0
    THEN {<<>>, <<Connect(1, 2)>>, <<Weld(1, 2)>>}
    ELSE {<<>>, <<Weld(1, nm + 1)>>, <<Weld(nm + 1, 1)>>, <<Connect(nm + 1, nm + 2)>>,
          <<Weld(nm + 1, nm + 2)>>, <<Connect(nm + 1, nm + 2), Weld(nm + 2, nm)>>}

ModelOf(nm, n, bias, shift, eq) ==
    [nmocap |-> nm, nu |-> n,
     actuator_biastype |-> bias,
     actuator_trnid |-> [i \in 1..n |-> i + shift],
     jnt_qposadr |-> [j \in 1..NQ |-> j],
     eq |-> eq,
     body_mocapid |-> [b \in 1..(nm + 2) |-> IF b <= nm THEN b ELSE -1]]

\* the models the environment is built on: actuator 1 position-tracking, 2 direct, ...
EnvModels ==
    UNION {{ModelOf(nm, n, [i \in 1..n |-> i % 2], 0, eq) :
               n \in 0..MaxNu, eq \in EqFamily(nm)} : nm \in 0..MaxMocap}

\* the models ctrl_set_action is exercised on: every mix of actuator kinds
DispatchModels ==
    UNION {{ModelOf(nm, n, bias, shift, <<>>) :
               bias \in [1..n -> {0, 1}], shift \in {0, 1}} :
           <<nm, n>> \in (0..MaxMocap) \X (1..MaxNu)}

----------------------------------------------------------------------------
(* The environment: _set_action, step, _get_obs, reset_model, set_goal *)

\* the environment and its simulation as one value
Cur ==
    [model |-> model, eq_data |-> eq_data, qpos |-> qpos, qvel |-> qvel, ctrl |-> ctrl,
     mocap_pos |-> mocap_pos, mocap_quat |-> mocap_quat, body_xpos |-> body_xpos,
     body_xquat |-> body_xquat, time |-> time, goal |-> goal, obs_dict |-> obs_dict,
     initializing |-> initializing, command |-> command]

\* pos_ctrl *= 0.05
PosGain(x) == (x * 50) \div Unit

\* fixed rotation of the end effector, expressed as a quaternion
RotCtrl == <<Unit, 0, Unit, 0>>

\* np.concatenate([pos_ctrl, rot_ctrl, gripper_ctrl])
Encode(action) ==
    <<PosGain(action[1]), PosGain(action[2]), PosGain(action[3])>> \o RotCtrl
        \o <<action[4], action[4]>>

\* _set_action: the assert, the encoding, then both dispatchers in turn
_set_action(S, action) ==
    IF Len(action) # 4 THEN [S |-> S, exc |-> "AssertionError"]
    ELSE LET cmd == Encode(action)
             c == ctrl_set_action(S.model, S.qpos, S.ctrl, cmd)
             S1 == [S EXCEPT !.ctrl = c.ctrl, !.command = cmd]
             mo == mocap_set_action(S.model, S.body_xpos, S.body_xquat,
                                    S.mocap_pos, S.mocap_quat, cmd)
         IN IF c.exc # "none" THEN [S |-> S1, exc |-> c.exc]
            ELSE [S |-> [S1 EXCEPT !.mocap_pos = mo.mocap_pos,
                                   !.mocap_quat = mo.mocap_quat],
                  exc |-> mo.exc]

\* sim.step(): the engine moves the joints and the bodies, not the mocap targets
Physics(S, k) ==
    [S EXCEPT !.qpos = QposOf(k), !.qvel = QvelOf(k),
              !.body_xpos = [b \in DOMAIN S.body_xpos |-> Place(k, b)],
              !.body_xquat = [b \in DOMAIN S.body_xquat |-> Orient(k, b)],
              !.time = @ + 1]

\* robot.get_obs(self, robot_noise_ratio): the joint readings carry noise n
RobotObs(S, n) ==
    [t |-> S.time,
     qp |-> [i \in 1..N_DOF_ROBOT |-> S.qpos[i] + n],
     qv |-> [i \in 1..N_DOF_ROBOT |-> S.qvel[i] + n],
     obj_qp |-> [i \in 1..N_DOF_OBJECT |-> S.qpos[N_DOF_ROBOT + i]],
     obj_qv |-> [i \in 1..N_DOF_OBJECT |-> S.qvel[N_DOF_ROBOT + i]]]

\* (mutation) a default goal sampled instead of the stored one
SampleDefaultGoal(S) == Zeros(GoalDim)

_get_task_goal(S) == S.goal

\* the dictionary _get_obs rebuilds
ObsDictOf(S, n) ==
    LET r == RobotObs(S, n) IN
    [t |-> r.t, qp |-> r.qp, qv |-> r.qv, obj_qp |-> r.obj_qp, obj_qv |-> r.obj_qv,
     goal |-> S.goal]

\* (mutation) the goal put first
FlatObsGoalFirst(d) == d.goal \o d.qp \o d.obj_qp

\* goal_concat is always True
FlatObs(d) == d.qp \o d.obj_qp \o d.goal

\* KitchenTaskRelaxV1._get_reward_n_score
_get_reward_n_score(d) ==
    [reward_dict |-> [true_reward |-> 0, bonus |-> 0, r_total |-> 0], score |-> 0]

NoVal == [obs |-> <<>>, reward |-> 0, done |-> FALSE, info |-> [time |-> 0, score |-> 0]]

\* np.clip(a, -1.0, 1.0)
Clip(a) == [i \in DOMAIN a |-> IF a[i] < -Unit THEN -Unit ELSE IF a[i] > Unit THEN Unit ELSE a[i]]

\* act_mid + a * act_amp broadcasts a against the 9-vectors act_mid and act_amp
Broadcasts(a) == Len(a) \in {1, N_DOF_ROBOT}
Scaled(a) == [i \in 1..N_DOF_ROBOT |-> 0 + (IF Len(a) = 1 THEN a[1] ELSE a[i]) * 2]

\* (mutation) the caller's action kept when it is long enough
CallerAction(a) == IF Len(a) >= 4 THEN SubSeq(a, 1, 4) ELSE <<0, Unit, 0, 0>>

\* a = np.array([0, 1, 0, 0]).astype(float)
StepAction(a) == <<0, Unit, 0, 0>>

\* step(a): k is the outcome of sim.step(), n the noise of the reading
step(S, a, k, n) ==
    LET a1 == Clip(a) IN
    IF ~S.initializing /\ ~Broadcasts(a1) THEN [S |-> S, exc |-> "ValueError", val |-> NoVal]
    ELSE LET S0 == IF S.initializing THEN [S EXCEPT !.goal = _get_task_goal(S)] ELSE S
             a2 == IF S.initializing THEN a1 ELSE Scaled(a1)
             r == _set_action(S0, StepAction(a2))
         IN IF r.exc # "none" THEN [S |-> r.S, exc |-> r.exc, val |-> NoVal]
            ELSE LET S1 == Physics(r.S, k)
                     d == ObsDictOf(S1, n)
                     rs == _get_reward_n_score(d)
                 IN [S |-> [S1 EXCEPT !.obs_dict = d],
                     exc |-> "none",
                     val |-> [obs |-> FlatObs(d), reward |-> rs.reward_dict.r_total,
                              done |-> FALSE,
                              info |-> [time |-> d.t, score |-> rs.score]]]

\* reset_model: robot.reset puts the joints at init_qpos, init_qvel; sim.forward()
\* recomputes the body poses (outcome k); the goal is resampled; n is the noise
InitQpos ==
    <<148, -1768, 1844, -2477, 260, 713, 1595, 48, 37,
      0, 0, 0, 0, 0, 0, 0, 0, 0, 0, 0,
      -6, -2, 1, -269, 350, 1619, 1006, 4, -7, 0>>

reset_model(S, k, n) ==
    LET S1 == [S EXCEPT !.qpos = InitQpos, !.qvel = Zeros(NQ),
                        !.body_xpos = [b \in DOMAIN S.body_xpos |-> Place(k, b)],
                        !.body_xquat = [b \in DOMAIN S.body_xquat |-> Orient(k, b)]]
        S2 == [S1 EXCEPT !.goal = _get_task_goal(S1)]
        d == ObsDictOf(S2, n)
    IN [S |-> [S2 EXCEPT !.obs_dict = d], exc |-> "none",
        val |-> [NoVal EXCEPT !.obs = FlatObs(d)]]

set_goal(S, g) == [S EXCEPT !.goal = g]

\* goal_space: a box over half the observation width
goal_space(dim) == dim \div 2

----------------------------------------------------------------------------
(* Construction: KitchenV0.__init__ *)

EmptyObsDict == [t |-> 0, qp |-> <<>>, qv |-> <<>>, obj_qp |-> <<>>, obj_qv |-> <<>>,
                 goal |-> <<>>]

\* lines 48-51 and the simulation as loaded from the model file
Fresh(m) ==
    [model |-> m,
     eq_data |-> [i \in 1..Len(m.eq) |-> Zeros(7)],
     qpos |-> QposOf(0), qvel |-> QvelOf(0),
     ctrl |-> Zeros(m.nu),
     mocap_pos |-> [j \in 1..m.nmocap |-> <<0, 0, 0>>],
     mocap_quat |-> [j \in 1..m.nmocap |-> WorldQuat],
     body_xpos |-> [b \in 1..(m.nmocap + 2) |-> Place(0, b)],
     body_xquat |-> [b \in 1..(m.nmocap + 2) |-> Orient(0, b)],
     time |-> 0,
     goal |-> Zeros(GoalDim),
     obs_dict |-> EmptyObsDict,
     initializing |-> TRUE,
     command |-> <<>>]

\* reset_mocap_welds: every weld's parameters become the neutral relative pose
reset_mocap_welds(S) ==
    IF S.model.nmocap > 0 /\ Len(S.model.eq) > 0
    THEN [S EXCEPT !.eq_data = [i \in DOMAIN S.eq_data |->
                                   IF S.model.eq[i].eq_type = EQ_WELD
                                   THEN <<0, 0, 0, Unit, 0, 0, 0>>
                                   ELSE S.eq_data[i]]]
    ELSE S

\* [-0.498, 0.005, -0.431 + 0.01]
GripperOffset == <<-498, 5, -421>>

\* the site "end_effector" sits on the welded link, body nmocap+1
EndEffectorSite(S) == S.body_xpos[S.model.nmocap + 1]

\* lines 64-75: the welds, the target "mocap" (target 1) placed at the gripper, ten ticks
CtorTail(S, k) ==
    LET S1 == reset_mocap_welds(S)
        S2 == [S1 EXCEPT !.mocap_pos[1] = VecAdd(GripperOffset, EndEffectorSite(S1)),
                         !.mocap_quat[1] = RotCtrl]
    IN [Physics(S2, k) EXCEPT !.time = S2.time + 10]

\* super().__init__ runs the first step with initializing set and clears it after;
\* the rest of __init__ needs a mocap target named "mocap"
Constructs(m, k1, n) ==
    /\ step(Fresh(m), Zeros(m.nu), k1, n).exc = "none"
    /\ m.nmocap >= 1

Construct(m, k1, k2, n) ==
    LET r == step(Fresh(m), Zeros(m.nu), k1, n)
    IN CtorTail([r.S EXCEPT !.initializing = FALSE], k2)

----------------------------------------------------------------------------
(* The environment as a state machine *)

Noise == {0, 1}
\* the outcomes of the engine: two configurations of the joints and the bodies
Poses == {0, 1}

\* the goals a caller sets, all of the goal space's width
Goals == {Zeros(GoalDim), [i \in 1..GoalDim |-> i]}

\* the actions a caller passes: of the declared width (0.0, and 2.0 which is
\* clipped to 1.0), of the width of the task-level action, and of width 1
Actions ==
    {Zeros(N_DOF_ROBOT)} \cup {[i \in 1..w |-> 2 * Unit] : w \in {1, 4, N_DOF_ROBOT}}

IsState(S) ==
    /\ model = S.model /\ eq_data = S.eq_data /\ qpos = S.qpos /\ qvel = S.qvel
    /\ ctrl = S.ctrl /\ mocap_pos = S.mocap_pos /\ mocap_quat = S.mocap_quat
    /\ body_xpos = S.body_xpos /\ body_xquat = S.body_xquat /\ time = S.time
    /\ goal = S.goal /\ obs_dict = S.obs_dict /\ initializing = S.initializing
    /\ command = S.command

Becomes(S) ==
    /\ model' = S.model /\ eq_data' = S.eq_data /\ qpos' = S.qpos /\ qvel' = S.qvel
    /\ ctrl' = S.ctrl /\ mocap_pos' = S.mocap_pos /\ mocap_quat' = S.mocap_quat
    /\ body_xpos' = S.body_xpos /\ body_xquat' = S.body_xquat /\ time' = S.time
    /\ goal' = S.goal /\ obs_dict' = S.obs_dict /\ initializing' = S.initializing
    /\ command' = S.command

NoEval ==
    /\ paths = <<>> /\ paths_b = <<>>
    /\ result = [exc |-> "pending", val |-> [num |-> 0, den |-> 1]]
    /\ result_b = [exc |-> "pending", val |-> [num |-> 0, den |-> 1]]

Init ==
    \E m \in EnvModels, k1 \in Poses, k2 \in Poses, n \in Noise :
        /\ Constructs(m, k1, n)
        /\ IsState(Construct(m, k1, k2, n))
        /\ obs_dim = Len(step(Fresh(m), Zeros(m.nu), k1, n).val.obs)
        /\ ret = [op |-> "__init__", arg |-> <<>>, exc |-> "none", val |-> NoVal]
        /\ ncalls = 0 /\ ep_steps = 0
        /\ ep_base = mocap_pos
        /\ ep_sum = [j \in 1..m.nmocap |-> <<0, 0, 0>>]
        /\ last_goal = Zeros(GoalDim)
        /\ NoEval

\* the targets right after the resync that opens mocap_set_action
Resynced ==
    reset_mocap2body_xpos(model, body_xpos, body_xquat, mocap_pos, mocap_quat).mocap_pos

Step ==
    \E a \in Actions, k \in Poses, n \in Noise : \E r \in {step(Cur, a, k, n)} :
        LET ok == r.exc = "none"
            deltas == [j \in 1..model.nmocap |-> PosDelta(r.S.command, j)]
        IN /\ ncalls < MaxCalls
           /\ Becomes(r.S)
           /\ ret' = [op |-> "step", arg |-> a, exc |-> r.exc, val |-> r.val]
           /\ ncalls' = IF ok THEN ncalls + 1 ELSE ncalls
           /\ ep_steps' = IF ok THEN ep_steps + 1 ELSE ep_steps
           /\ ep_base' = IF ok /\ ep_steps = 0 THEN Resynced ELSE ep_base
           /\ ep_sum' = IF ~ok THEN ep_sum
                        ELSE [j \in 1..model.nmocap |->
                                 VecAdd(IF ep_steps = 0 THEN <<0, 0, 0>> ELSE ep_sum[j],
                                        deltas[j])]
           /\ UNCHANGED <<obs_dim, last_goal, evalVars>>

ResetModel ==
    \E k \in Poses, n \in Noise : \E r \in {reset_model(Cur, k, n)} :
           /\ Becomes(r.S)
           /\ ret' = [op |-> "reset_model", arg |-> <<>>, exc |-> r.exc, val |-> r.val]
           /\ ep_steps' = 0
           /\ ep_base' = mocap_pos
           /\ ep_sum' = [j \in 1..model.nmocap |-> <<0, 0, 0>>]
           /\ UNCHANGED <<obs_dim, ncalls, last_goal, evalVars>>

SetGoal ==
    \E g \in Goals : \E S \in {set_goal(Cur, g)} :
        /\ Becomes(S)
        /\ ret' = [op |-> "set_goal", arg |-> g, exc |-> "none", val |-> NoVal]
        /\ last_goal' = g
        /\ UNCHANGED <<obs_dim, ncalls, ep_steps, ep_base, ep_sum, evalVars>>

Next == Step \/ ResetModel \/ SetGoal

Spec == Init /\ [][Next]_vars

----------------------------------------------------------------------------
(* Properties of the environment, checked under Spec *)

StepDone == ret.op = "step" /\ ret.exc = "none"
ObsReturned == ret.op \in {"step", "reset_model"} /\ ret.exc = "none"

\* a transition that is a completed step
StepTaken == ret'.op = "step" /\ ret'.exc = "none" /\ ncalls' = ncalls + 1

\* the welds that tie target j to a body, and that body
WeldsOf(m, j) ==
    {i \in 1..Len(m.eq) :
        /\ m.eq[i].eq_type = EQ_WELD
        /\ \/ m.body_mocapid[m.eq[i].obj1id] = j
           \/ m.body_mocapid[m.eq[i].obj1id] = -1 /\ m.body_mocapid[m.eq[i].obj2id] = j}
WeldedBody(m, i) ==
    IF m.body_mocapid[m.eq[i].obj1id] # -1 THEN m.eq[i].obj2id ELSE m.eq[i].obj1id
LastWeld(m, j) == CHOOSE i \in WeldsOf(m, j) : \A i2 \in WeldsOf(m, j) : i2 <= i

\* C1: after construction step(a) completes and returns its 4-tuple for every
\* action of length 4, and fails for every action of another length.
C1_StepTakesFourVectors ==
    ret.op = "step" =>
        /\ Len(ret.arg) = 4 => (ret.exc = "none" /\ Len(ret.val.obs) = obs_dim)
        /\ Len(ret.arg) # 4 => ret.exc # "none"

C5_TargetAccumulatesDeltas ==
    ep_steps >= 1 =>
        \A j \in 1..model.nmocap : mocap_pos[j] = VecAdd(ep_base[j], ep_sum[j])

\* C5 amended: the resync runs in every step: a target that has a weld ends the
\* step at the welded body's position measured at that step plus that step's
\* delta alone; only a target without a weld keeps accumulating.
C5_TargetRestartsFromBody ==
    [][StepTaken =>
        \A j \in 1..model.nmocap :
            mocap_pos'[j] =
                VecAdd(IF WeldsOf(model, j) = {} THEN mocap_pos[j]
                       ELSE body_xpos[WeldedBody(model, LastWeld(model, j))],
                       PosDelta(command', j))]_vars

C5_Witness ==
    /\ StepDone
    /\ ep_steps >= 2
    /\ WeldsOf(model, 1) # {}
    /\ mocap_pos[1] # VecAdd(ep_base[1], ep_sum[1])

\* C6: every observation returned is joint_pos, object_pos, goal in that order,
\* and its length is the declared observation dimensionality, 9 + 21 + len(goal).
C6_ObservationLayout ==
    ObsReturned =>
        /\ Len(ret.val.obs) = obs_dim
        /\ Len(ret.val.obs) = N_DOF_ROBOT + N_DOF_OBJECT + Len(goal)
        /\ Len(goal) = goal_space(obs_dim)
        /\ SubSeq(ret.val.obs, 1, N_DOF_ROBOT) = obs_dict.qp
        /\ SubSeq(ret.val.obs, N_DOF_ROBOT + 1, NQ) = obs_dict.obj_qp
        /\ SubSeq(ret.val.obs, NQ + 1, NQ + Len(goal)) = goal

C6_Witness ==
    /\ StepDone
    /\ goal # Zeros(GoalDim)
    /\ ret.val.obs[NQ + GoalDim] = GoalDim

\* C7: the stored goal is the one last set, whatever resets and steps
\* followed, and so is the goal entry of the observation dictionary they build.
C7_GoalPersists ==
    /\ _get_task_goal(Cur) = last_goal
    /\ ObsReturned => obs_dict.goal = last_goal

C7_Witness ==
    /\ ret.op = "reset_model"
    /\ last_goal # Zeros(GoalDim)
    /\ obs_dict.goal = last_goal
    /\ ncalls >= 1

FixedCommand == <<0, 50, 0, Unit, 0, Unit, 0, 0, 0>>

\* C10: from any state, every action step accepts leads to the same command
\* [0, 0.05, 0, 1, 0, 1, 0, 0, 0], the same controls, targets and result.
C10_ActionIgnored ==
    \A k \in Poses, n \in Noise : \A ref \in {step(Cur, Zeros(N_DOF_ROBOT), k, n)} :
        \A a \in Actions : \A r \in {step(Cur, a, k, n)} :
            r.exc = "none" => (r = ref /\ r.S.command = FixedCommand)

C10_Witness ==
    /\ StepDone
    /\ ret.arg = [i \in 1..N_DOF_ROBOT |-> 2 * Unit]
    /\ command = FixedCommand

----------------------------------------------------------------------------
(* ctrl_set_action called on any simulation with any command: SpecDispatch *)

\* commands of every length around 7*nmocap + nu: all zero, or a ramp
Commands(m) ==
    {[i \in 1..w |-> v * i] : w \in 0..(7 * m.nmocap + m.nu + 1), v \in {0, 1}}

DispatchInit ==
    \E m \in DispatchModels, k \in Poses : \E cmd \in Commands(m) :
        /\ IsState([Fresh(m) EXCEPT !.qpos = QposOf(k), !.command = cmd,
                                    !.initializing = FALSE])
        /\ obs_dim = 0
        /\ ret = [op |-> "none", arg |-> <<>>, exc |-> "none", val |-> NoVal]
        /\ ncalls = 0 /\ ep_steps = 0
        /\ ep_base = mocap_pos
        /\ ep_sum = [j \in 1..m.nmocap |-> <<0, 0, 0>>]
        /\ last_goal = Zeros(GoalDim)
        /\ NoEval

CtrlSetAction ==
    \E r \in {ctrl_set_action(model, qpos, ctrl, command)} :
        /\ ctrl' = r.ctrl
        /\ ret' = [op |-> "ctrl_set_action", arg |-> command, exc |-> r.exc, val |-> NoVal]
        /\ UNCHANGED <<model, eq_data, qpos, qvel, mocap_pos, mocap_quat, body_xpos,
                       body_xquat, time, envVars, command, epVars, evalVars>>

\* the engine advances between two dispatches
SimStep ==
    \E k \in Poses : \E S \in {Physics(Cur, k)} :
        /\ time < MaxCalls
        /\ Becomes(S)
        /\ ret' = [op |-> "sim.step", arg |-> <<>>, exc |-> "none", val |-> NoVal]
        /\ UNCHANGED <<obs_dim, epVars, evalVars>>

DispatchNext == CtrlSetAction \/ SimStep

SpecDispatch == DispatchInit /\ [][DispatchNext]_vars

\* the command once its leading 7*nmocap entries are gone
Stripped == [i \in 1..(Len(command) - 7 * model.nmocap) |-> command[i + 7 * model.nmocap]]

Dispatched == ret.op = "ctrl_set_action" /\ ret.exc = "none"

\* C2: ctrl_set_action strips the leading 7*nmocap entries and writes, for every
\* actuator i the command reaches, command[i] when i is direct-drive and
\* qpos[jnt_qposadr[actuator_trnid[i,0]]] + command[i] when it is
\* position-tracking; a zero command gives the driven joint's current qpos.
C2_DispatchPerActuator ==
    Dispatched =>
        \A i \in 1..model.nu :
            i <= Len(Stripped) =>
                /\ model.actuator_biastype[i] = 0 => ctrl[i] = Stripped[i]
                /\ model.actuator_biastype[i] # 0 =>
                       /\ ctrl[i] = qpos[model.jnt_qposadr[model.actuator_trnid[i]]]
                                        + Stripped[i]
                       /\ Stripped[i] = 0 =>
                              ctrl[i] = qpos[model.jnt_qposadr[model.actuator_trnid[i]]]

C2_Witness ==
    /\ Dispatched
    /\ model.nmocap = 1 /\ model.nu = 2 /\ Len(Stripped) = 2
    /\ model.actuator_biastype = <<1, 0>>
    /\ model.actuator_trnid[1] = 2
    /\ Stripped[1] # 0
    /\ ctrl = <<qpos[2] + Stripped[1], Stripped[2]>>

\* C3: a command whose length after stripping differs from the actuator count
\* makes the dispatch fail; it never completes.
C3_LengthMismatchFails ==
    (ret.op = "ctrl_set_action" /\ Len(Stripped) # model.nu) => ret.exc # "none"

----------------------------------------------------------------------------
(* evaluate_success: exact rationals [num, den] in lowest terms, den > 0 *)

RECURSIVE Gcd(_, _)
Gcd(a, b) == IF b = 0 THEN a ELSE Gcd(b, a % b)

Rat(n, d) == LET g == Gcd(Abs(n), d) IN [num |-> n \div g, den |-> d \div g]
RatAdd(x, y) == Rat(x.num * y.den + y.num * x.den, x.den * y.den)
RatDiv(x, n) == Rat(x.num, x.den * n)
RatEq(x, y) == x.num * y.den = y.num * x.den
RatLess(x, y) == x.num * y.den < y.num * x.den

RECURSIVE SumSeq(_)
SumSeq(s) == IF s = <<>> THEN 0 ELSE Head(s) + SumSeq(Tail(s))

\* np.mean(path["env_infos"]["score"])
MeanOf(s) == Rat(SumSeq(s), Len(s))

\* the first loop and np.mean(mean_score_per_rollout)
RECURSIVE SumOfMeans(_, _)
SumOfMeans(ps, idx) ==
    IF idx > Len(ps) THEN Rat(0, 1)
    ELSE RatAdd(MeanOf(ps[idx].score), SumOfMeans(ps, idx + 1))
MeanScore(ps) == RatDiv(SumOfMeans(ps, 1), Len(ps))

\* (mutation) the bonus of the first step
FirstBonus(path) == path.bonus[1]

\* path["env_infos"]["rewards"]["bonus"][-1]
FinalBonus(path) == path.bonus[Len(path.bonus)]

\* the second loop: num_success += bool(...)
RECURSIVE NumSuccess(_, _)
NumSuccess(ps, idx) ==
    IF idx > Len(ps) THEN 0
    ELSE (IF FinalBonus(ps[idx]) # 0 THEN 1 ELSE 0) + NumSuccess(ps, idx + 1)

\* round(x, 2) of x = n/d >= 0, in hundredths: to nearest, ties to even
Round2(n, d) ==
    LET q == (100 * n) \div d
        r == (100 * n) % d
    IN IF 2 * r < d THEN q
       ELSE IF 2 * r > d THEN q + 1
       ELSE IF q % 2 = 0 THEN q ELSE q + 1

\* (mutation) the percentage weighted by 1e5
FuseLowWeight(mean, pct100) ==
    Rat(Sign(mean.num) * (1000 * pct100 * mean.den + Abs(mean.num)), mean.den)

\* np.sign(mean_score) * (1e6 * round(success_percentage, 2) + abs(mean_score)),
\* pct100 being the rounded percentage in hundredths: 1e6 * pct100 / 100
Fuse(mean, pct100) ==
    Rat(Sign(mean.num) * (10000 * pct100 * mean.den + Abs(mean.num)), mean.den)

NoResult == [exc |-> "pending", val |-> Rat(0, 1)]

\* num_success * 100.0 / num_paths raises on an empty batch
evaluate_success(ps) ==
    IF Len(ps) = 0 THEN [exc |-> "ZeroDivisionError", val |-> Rat(0, 1)]
    ELSE [exc |-> "none",
          val |-> Fuse(MeanScore(ps), Round2(NumSuccess(ps, 1) * 100, Len(ps)))]

----------------------------------------------------------------------------
(* evaluate_success on batches of recorded rollouts: SpecEval *)

BigScore == 60 * 1000 * 1000
Scores == {-1, 1, BigScore}

\* a rollout of w steps: its scores, and a bonus that only its last step earns
\* or only its last step misses
RolloutsOf(w) ==
    {[score |-> sc, bonus |-> [i \in 1..w |-> IF i = w THEN b ELSE 1 - b]] :
        sc \in [1..w -> Scores], b \in {0, 1}}
Rollouts == RolloutsOf(1) \cup RolloutsOf(2)

Batches == UNION {[1..n -> Rollouts] : n \in 0..MaxPaths}
SmallBatches == {<<>>} \cup {<<p>> : p \in RolloutsOf(1)}

EvalInit ==
    \E m \in {ModelOf(0, 0, <<>>, 0, <<>>)} :
        /\ IsState([Fresh(m) EXCEPT !.initializing = FALSE])
        /\ obs_dim = 0
        /\ ret = [op |-> "none", arg |-> <<>>, exc |-> "none", val |-> NoVal]
        /\ ncalls = 0 /\ ep_steps = 0 /\ ep_base = <<>> /\ ep_sum = <<>>
        /\ last_goal = Zeros(GoalDim)
        /\ paths \in Batches /\ paths_b \in SmallBatches
        /\ result = NoResult /\ result_b = NoResult

EvaluateSuccess ==
    /\ result = NoResult
    /\ result' = evaluate_success(paths)
    /\ UNCHANGED <<simVars, envVars, command, ret, epVars, paths, paths_b, result_b>>

EvaluateSuccessB ==
    /\ result_b = NoResult
    /\ result_b' = evaluate_success(paths_b)
    /\ UNCHANGED <<simVars, envVars, command, ret, epVars, paths, paths_b, result>>

EvalNext == EvaluateSuccess \/ EvaluateSuccessB

SpecEval == EvalInit /\ [][EvalNext]_vars

----------------------------------------------------------------------------
(* Properties of evaluate_success, checked under SpecEval *)

\* every rollout of Rollouts has 1 or 2 steps: sums over the common denominator 2
TwiceMean(path) == SumSeq(path.score) * (2 \div Len(path.score))
RECURSIVE TwiceTotal(_)
TwiceTotal(ps) == IF ps = <<>> THEN 0 ELSE TwiceMean(Head(ps)) + TwiceTotal(Tail(ps))

\* mean_score is TwiceTotal(ps) / (2 * Len(ps))
Successes(ps) == Cardinality({j \in 1..Len(ps) : ps[j].bonus[Len(ps[j].bonus)] # 0})

\* 100 * successes / rollouts rounded to two decimals, in hundredths: the nearest
\* integer to 10000 * k / n
NearestHundredth(k, n) ==
    CHOOSE r \in {(10000 * k) \div n, (10000 * k) \div n + 1} :
        \/ 2 * Abs(r * n - 10000 * k) < n
        \/ 2 * Abs(r * n - 10000 * k) = n /\ r % 2 = 0

\* sign(mean_score) * (1_000_000 * round(success_percentage, 2) + |mean_score|)
Expected(ps) ==
    Rat(Sign(TwiceTotal(ps))
            * (10000 * NearestHundredth(Successes(ps), Len(ps)) * 2 * Len(ps)
               + Abs(TwiceTotal(ps))),
        2 * Len(ps))

\* C8: on a non-empty batch evaluate_success returns
\* sign(mean_score) * (1_000_000 * round(success_percentage, 2) + |mean_score|)
\* (100000001 for one rollout with scores [1,1] and a final bonus, 1 without
\* the bonus); on an empty batch it fails.
C8_EvaluateSuccessFormula ==
    result.exc # "pending" =>
        /\ paths = <<>> => result.exc = "ZeroDivisionError"
        /\ paths # <<>> => (result.exc = "none" /\ result.val = Expected(paths))
        /\ paths = <<[score |-> <<1, 1>>, bonus |-> <<0, 1>>]>> =>
               result.val = [num |-> 100000001, den |-> 1]
        /\ paths = <<[score |-> <<1, 1>>, bonus |-> <<1, 0>>]>> =>
               result.val = [num |-> 1, den |-> 1]

C8_Witness ==
    /\ result.exc = "none"
    /\ paths = <<[score |-> <<1, 1>>, bonus |-> <<0, 1>>]>>
    /\ result.val = [num |-> 100000001, den |-> 1]

BothEvaluated == result.exc = "none" /\ result_b.exc = "none"

\* C9 as stated: a strictly greater success percentage gives a strictly greater
\* result, whatever the mean scores.
C9_SuccessRateDominates ==
    (BothEvaluated
        /\ Successes(paths) * Len(paths_b) > Successes(paths_b) * Len(paths))
    => RatLess(result_b.val, result.val)

\* 0 < mean_score <= 5000
ModestPositiveMean(ps) ==
    TwiceTotal(ps) > 0 /\ TwiceTotal(ps) <= 5000 * 2 * Len(ps)

\* C9 amended: when both mean scores are strictly positive and at most 5000, a
\* strictly greater success percentage (rounded to two decimals) gives a
\* strictly greater result.
C9_SuccessRateDominatesPositive ==
    (BothEvaluated
        /\ ModestPositiveMean(paths) /\ ModestPositiveMean(paths_b)
        /\ NearestHundredth(Successes(paths), Len(paths))
               > NearestHundredth(Successes(paths_b), Len(paths_b)))
    => RatLess(result_b.val, result.val)

C9_Witness ==
    /\ BothEvaluated
    /\ Len(paths) = 2 /\ Successes(paths) = 1 /\ Successes(paths_b) = 0
    /\ ModestPositiveMean(paths) /\ ModestPositiveMean(paths_b)
    /\ TwiceTotal(paths) * Len(paths_b) < TwiceTotal(paths_b) * Len(paths)
    /\ RatLess(result_b.val, result.val)

============================================================================
